---- MODULE Spec2Model ----
(***************************************************************************)
(* Model of the stoic-quotes-api HTTP service (src/server.js).             *)
(*                                                                         *)
(* Every request is a small process: it is received, passes the JSON body  *)
(* parser, the RapidAPI tier middleware (for /api paths) and its route     *)
(* handler.  A handler suspends only on the upstream call made by          *)
(* generateWithDeepSeek and on the 500ms timer of the batch loop; these    *)
(* are the points where requests interleave.                               *)
(*                                                                         *)
(* JavaScript values are tagged records: [t |-> "undefined"],              *)
(* [t |-> "null"], [t |-> "num", n |-> 3], [t |-> "str", s |-> "PRO"],     *)
(* [t |-> "arr", a |-> <<"A","B">>].  A JavaScript number that may be NaN  *)
(* is [nan |-> BOOLEAN, n |-> Int].                                        *)
(***************************************************************************)
EXTENDS Integers, Sequences, FiniteSets, TLC

\* ------------------------------------------------------------------ bounds

\* number of requests the server receives in one behaviour
NumReqs == 2

\* Math.random() is drawn from the sample points k/RandDenom, 0 <= k < RandDenom
RandDenom == 2

\* ------------------------------------------------------- program constants

\* upper limit of a batch, the literal of Math.min(parseInt(count), 10)
BatchLimit == 10

\* destructuring default of count in the batch handler
DefaultCount == 3

\* default max_tokens of generateWithDeepSeek
DefaultMaxTokens == 150

\* max_tokens passed by the custom handler
CustomMaxTokens == 200

\* max_tokens passed by the daily handler
DailyMaxTokens == 250

stoicPhilosophers ==
  << "Marcus Aurelius", "Epictetus", "Seneca", "Zeno of Citium",
     "Cleanthes", "Chrysippus", "Cato the Younger", "Musonius Rufus" >>

stoicThemes ==
  << "virtue", "acceptance", "resilience", "self-control", "wisdom",
     "mortality", "duty", "tranquility", "courage", "justice",
     "perspective", "adversity", "focus", "gratitude" >>

Range(s) == { s[k] : k \in 1..Len(s) }

\* --------------------------------------------------------- JavaScript values

Undefined == [t |-> "undefined"]

Null == [t |-> "null"]

Num(k) == [t |-> "num", n |-> k]

Str(x) == [t |-> "str", s |-> x]

Arr(x) == [t |-> "arr", a |-> x]

NaN == [nan |-> TRUE, n |-> 0]

Number(k) == [nan |-> FALSE, n |-> k]

\* JavaScript truthiness, as used by ||, && and !
Truthy(v) ==
  CASE v.t = "undefined" -> FALSE
    [] v.t = "null"      -> FALSE
    [] v.t = "num"       -> v.n # 0
    [] v.t = "str"       -> v.s # ""
    [] OTHER             -> TRUE

\* the characters of the strings the requests carry as count
Chars(s) ==
  CASE s = "abc" -> << "a", "b", "c" >>
    [] s = "7"   -> << "7" >>
    [] s = "2x"  -> << "2", "x" >>
    [] s = " 4"  -> << " ", "4" >>
    [] s = "-3"  -> << "-", "3" >>
    [] s = ""    -> << >>
    [] OTHER     -> << "?" >>

DigitChars == << "0", "1", "2", "3", "4", "5", "6", "7", "8", "9" >>

IsDigit(c) == c \in Range(DigitChars)

DigitValue(c) == (CHOOSE k \in 1..10 : DigitChars[k] = c) - 1

RECURSIVE NatToChars(_)
NatToChars(k) ==
  IF k < 10 THEN << DigitChars[k + 1] >>
  ELSE NatToChars(k \div 10) \o << DigitChars[(k % 10) + 1] >>

\* String(n) for an integer n
NumToChars(k) == IF k < 0 THEN << "-" >> \o NatToChars(0 - k) ELSE NatToChars(k)

RECURSIVE SkipSpaces(_)
SkipSpaces(cs) ==
  IF cs # << >> /\ Head(cs) = " " THEN SkipSpaces(Tail(cs)) ELSE cs

RECURSIVE ParseDigits(_, _, _)
\* consumes the leading digits of cs; seen says whether a digit was read
ParseDigits(cs, acc, seen) ==
  IF cs # << >> /\ IsDigit(Head(cs))
  THEN ParseDigits(Tail(cs), acc * 10 + DigitValue(Head(cs)), TRUE)
  ELSE IF seen THEN Number(acc) ELSE NaN

\* parseInt of a string given as its characters (radix 10)
ParseIntChars(cs) ==
  LET body == SkipSpaces(cs)
      neg  == body # << >> /\ Head(body) = "-"
      rest == IF body # << >> /\ Head(body) \in { "-", "+" } THEN Tail(body) ELSE body
      mag  == ParseDigits(rest, 0, FALSE)
  IN  IF mag.nan THEN NaN ELSE Number(IF neg THEN 0 - mag.n ELSE mag.n)

\* parseInt(v): the argument is converted to a string and its integer prefix read
parseInt(v) ==
  CASE v.t = "num" -> ParseIntChars(NumToChars(v.n))
    [] v.t = "str" -> ParseIntChars(Chars(v.s))
    [] OTHER       -> NaN

\* Math.min(a, b): NaN when either argument is NaN
MathMin(a, b) ==
  IF a.nan \/ b.nan THEN NaN ELSE Number(IF a.n < b.n THEN a.n ELSE b.n)

\* the JavaScript comparison a < b of an integer with a number (false for NaN)
LessThan(a, b) == ~b.nan /\ a < b.n

\* String.prototype.toLowerCase on the theme strings the requests carry
toLowerCase(s) ==
  CASE s = "COURAGE" -> "courage"
    [] s = "Virtue"  -> "virtue"
    [] s = "Love"    -> "love"
    [] OTHER         -> s

\* Math.floor(Math.random() * len) for the sample point k/RandDenom, 0-based
RandomIndex(k, len) == (k * len) \div RandDenom

RandomSamples == 0..(RandDenom - 1)


\* ---------------------------------------------------------------- requests

Endpoints ==
  { "generate", "custom", "daily", "adversity", "themes", "philosophers",
    "batch", "health", "root" }

\* paths mounted under /api, which pass through verifyRapidAPI
ApiEndpoints == Endpoints \ { "health", "root" }

\* a request with every header, query and body field absent
BaseRequest(e) ==
  [ endpoint |-> e, subscription |-> Undefined, bodyOk |-> TRUE,
    theme |-> Undefined, philosopher |-> Undefined, length |-> Undefined,
    situation |-> Undefined, mood |-> Undefined, challenge |-> Undefined,
    type |-> Undefined, count |-> Undefined, themes |-> Undefined ]

\* values of the x-rapidapi-subscription header
Subscriptions ==
  { Undefined, Str(""), Str("BASIC"), Str("PRO"), Str("ULTRA"), Str("MEGA"), Str("pro") }

Counts ==
  { Undefined, Null, Num(0), Num(0 - 1), Num(1), Num(2), Num(5), Num(15),
    Str("abc"), Str("7"), Str("2x"), Str(" 4"), Str("-3") }

\* counts that give at most DefaultCount items
SmallCounts == { Undefined, Null, Num(0), Num(0 - 1), Num(1), Num(2), Str("abc") }

GivenThemes == { Arr(<< "A" >>), Arr(<< "A", "B" >>) }

\* bodies of POST /api/quote/batch; long batches are requested with given themes
BatchBodies ==
  [ count : Counts, themes : GivenThemes ]
    \cup [ count : SmallCounts, themes : { Undefined, Null, Arr(<< >>) } ]

BatchRequests ==
  { [ BaseRequest("batch") EXCEPT !.subscription = h, !.count = b.count,
                                  !.themes = b.themes, !.bodyOk = ok ] :
      h \in Subscriptions, b \in BatchBodies, ok \in BOOLEAN }

GenerateRequests ==
  { [ BaseRequest("generate") EXCEPT !.subscription = h, !.theme = th,
                                     !.philosopher = ph, !.length = ln ] :
      h \in { Undefined, Str("PRO") },
      th \in { Undefined, Str(""), Str("courage"), Str("COURAGE"), Str("Love") },
      ph \in { Undefined, Str("Seneca"), Str("Plato") },
      ln \in { Undefined, Str("short"), Str("long"), Str("huge") } }

BodyFields == { Undefined, Str(""), Str("x") }

CustomRequests ==
  { [ BaseRequest("custom") EXCEPT !.subscription = h, !.situation = s, !.mood = m,
                                   !.challenge = c, !.bodyOk = ok ] :
      h \in { Undefined, Str("MEGA") }, s \in BodyFields, m \in BodyFields,
      c \in BodyFields, ok \in BOOLEAN }

AdversityRequests ==
  { [ BaseRequest("adversity") EXCEPT !.subscription = h, !.type = ty ] :
      h \in { Undefined, Str("ULTRA") }, ty \in { Undefined, Str("financial") } }

PlainRequests ==
  { [ BaseRequest(e) EXCEPT !.subscription = h ] :
      e \in { "daily", "themes", "philosophers", "health", "root" },
      h \in { Undefined, Str("BASIC") } }

\* the requests a single client may send
Requests ==
  BatchRequests \cup GenerateRequests \cup CustomRequests
    \cup AdversityRequests \cup PlainRequests

\* the requests sent when several clients are served at once
ConcurrentRequests ==
  { BaseRequest(e) : e \in { "daily", "adversity", "themes", "philosophers", "health", "root" } }
    \cup { [ BaseRequest("generate") EXCEPT !.theme = Str("courage"),
                                            !.philosopher = Str("Seneca") ],
           [ BaseRequest("custom") EXCEPT !.situation = Str("x") ],
           [ BaseRequest("custom") EXCEPT !.bodyOk = FALSE ],
           [ BaseRequest("batch") EXCEPT !.subscription = Str("MEGA"), !.count = Num(2) ],
           [ BaseRequest("batch") EXCEPT !.subscription = Str("PRO"), !.count = Num(2),
                                         !.themes = Arr(<< "A" >>) ] }

\* -------------------------------------------------------------------- state

VARIABLES
  DEEPSEEK_API_KEY,  \* TRUE when process.env.DEEPSEEK_API_KEY is set
  pc,                \* position of each request's handler
  req,               \* headers, query and body of each request
  userTier,          \* req.userTier
  maxCount,          \* loop bound of the batch handler
  i,                 \* loop counter of the batch handler
  theme,             \* theme of the batch item being generated
  quotes,            \* the quotes array of the batch handler
  calls,             \* upstream calls made for the request, in order
  pauses,            \* 500ms timers that have elapsed for the request
  draws,             \* indices produced by Math.random for the request
  sent               \* responses written for the request

vars ==
  << DEEPSEEK_API_KEY, pc, req, userTier, maxCount, i, theme, quotes, calls, pauses, draws, sent >>

Reqs == DOMAIN pc

\* initial state of a server that will receive the requests of ids
InitFor(ids) ==
  /\ DEEPSEEK_API_KEY \in BOOLEAN
  /\ pc = [ r \in ids |-> "idle" ]
  /\ req = [ r \in ids |-> BaseRequest("root") ]
  /\ userTier = [ r \in ids |-> Undefined ]
  /\ maxCount = [ r \in ids |-> NaN ]
  /\ i = [ r \in ids |-> 0 ]
  /\ theme = [ r \in ids |-> "" ]
  /\ quotes = [ r \in ids |-> << >> ]
  /\ calls = [ r \in ids |-> << >> ]
  /\ pauses = [ r \in ids |-> 0 ]
  /\ draws = [ r \in ids |-> << >> ]
  /\ sent = [ r \in ids |-> << >> ]

\* ---------------------------------------------------------------- responses

\* a JSON response: keys are the members of the body that are present
Json(status, success, error, keys, data, count) ==
  [ status |-> status, success |-> success, error |-> error, keys |-> keys,
    data |-> data, count |-> count ]

\* res.status(500).json({success:false, error, message}) of a handler's catch
Failure(error) ==
  Json(500, "false", error, { "success", "error", "message" }, << >>, 0)

\* res.json({success:true, data}) of the single-quote handlers
Success(item) ==
  Json(200, "true", "", { "success", "data" }, << item >>, 0)

\* the catch-all error middleware
InternalError ==
  Json(500, "false", "Internal server error", { "success", "error" }, << >>, 0)

\* ----------------------------------------------------------- upstream calls

\* what the provider can answer; without a credential every call is rejected
UpstreamOutcomes(key) == IF key THEN { "ok", "error", "malformed" } ELSE { "error" }

Prompt(kind, about, directive, clauses) ==
  [ kind |-> kind, theme |-> about, directive |-> directive, clauses |-> clauses ]

Call(prompt, maxTokens) ==
  [ prompt |-> prompt, maxTokens |-> maxTokens, outcome |-> "pending" ]

\* a catch block that logs the error and does not rethrow it
generateWithDeepSeek_Swallowed(outcome) ==
  [ threw |-> FALSE, text |-> IF outcome = "ok" THEN "quote" ELSE "", message |-> "" ]

\* generateWithDeepSeek once axios.post has settled with outcome: the text of
\* the first choice, or the Error thrown by the catch block
generateWithDeepSeek(outcome) ==
  IF outcome = "ok"
  THEN [ threw |-> FALSE, text |-> "quote", message |-> "" ]
  ELSE [ threw |-> TRUE, text |-> "", message |-> "Failed to generate quote" ]

\* the calls of r with the pending one settled, as answered or failed
Settle(r, outcome) ==
  [ calls[r] EXCEPT ![Len(calls[r])].outcome = IF outcome = "ok" THEN "ok" ELSE "failed" ]

InFlight(r) == Cardinality({ k \in 1..Len(calls[r]) : calls[r][k].outcome = "pending" })


\* ------------------------------------------------------------- middleware

\* a request arrives and passes express.json(): a body that does not parse is
\* handed to the error middleware; /api paths go on to verifyRapidAPI
Receive(r, menu) ==
  /\ pc[r] = "idle"
  /\ \E q \in menu :
       /\ req' = [ req EXCEPT ![r] = q ]
       /\ pc' = [ pc EXCEPT ![r] =
                    IF ~q.bodyOk THEN "error"
                    ELSE IF q.endpoint \in ApiEndpoints THEN "verify"
                    ELSE "route" ]
  /\ UNCHANGED << DEEPSEEK_API_KEY, userTier, maxCount, i, theme, quotes, calls, pauses, draws, sent >>

\* the header taken as it is, without the || 'BASIC' default
TierOf_NoDefault(header) == header

\* req.headers['x-rapidapi-subscription'] || 'BASIC'
TierOf(header) == IF Truthy(header) THEN header ELSE Str("BASIC")

verifyRapidAPI(r) ==
  /\ pc[r] = "verify"
  /\ userTier' = [ userTier EXCEPT ![r] = TierOf(req[r].subscription) ]
  /\ pc' = [ pc EXCEPT ![r] = "route" ]
  /\ UNCHANGED << DEEPSEEK_API_KEY, req, maxCount, i, theme, quotes, calls, pauses, draws, sent >>

\* app.use((err, req, res, next) => ...)
ErrorHandler(r) ==
  /\ pc[r] = "error"
  /\ sent' = [ sent EXCEPT ![r] = Append(@, InternalError) ]
  /\ pc' = [ pc EXCEPT ![r] = "done" ]
  /\ UNCHANGED << DEEPSEEK_API_KEY, req, userTier, maxCount, i, theme, quotes, calls, pauses, draws >>

\* ----------------------------------------------------- handlers without I/O

\* the handler of r answers with resp and returns
Respond(r, resp) ==
  /\ sent' = [ sent EXCEPT ![r] = Append(@, resp) ]
  /\ pc' = [ pc EXCEPT ![r] = "done" ]

\* the handler of r calls generateWithDeepSeek(prompt, maxTokens) and awaits it
Await(r, prompt, maxTokens) ==
  /\ calls' = [ calls EXCEPT ![r] = Append(@, Call(prompt, maxTokens)) ]
  /\ pc' = [ pc EXCEPT ![r] = "await" ]

Themes(r) ==
  /\ pc[r] = "route" /\ req[r].endpoint = "themes"
  /\ Respond(r, Json(200, "true", "", { "success", "data" }, stoicThemes, 0))
  /\ UNCHANGED << DEEPSEEK_API_KEY, req, userTier, maxCount, i, theme, quotes, calls, pauses, draws >>

Philosophers(r) ==
  /\ pc[r] = "route" /\ req[r].endpoint = "philosophers"
  /\ Respond(r, Json(200, "true", "", { "success", "data" }, stoicPhilosophers, 0))
  /\ UNCHANGED << DEEPSEEK_API_KEY, req, userTier, maxCount, i, theme, quotes, calls, pauses, draws >>

Health(r) ==
  /\ pc[r] = "route" /\ req[r].endpoint = "health"
  /\ Respond(r, Json(200, "absent", "", { "status", "deepseekConfigured", "timestamp" },
                     << [ status |-> "ok", deepseekConfigured |-> DEEPSEEK_API_KEY ] >>, 0))
  /\ UNCHANGED << DEEPSEEK_API_KEY, req, userTier, maxCount, i, theme, quotes, calls, pauses, draws >>

Root(r) ==
  /\ pc[r] = "route" /\ req[r].endpoint = "root"
  /\ Respond(r, Json(200, "absent", "", { "name", "version", "description", "poweredBy",
                                          "endpoints", "documentation" }, << >>, 0))
  /\ UNCHANGED << DEEPSEEK_API_KEY, req, userTier, maxCount, i, theme, quotes, calls, pauses, draws >>

\* ------------------------------------------------- GET /api/quote/generate

\* theme && stoicThemes.includes(theme.toLowerCase())
KnownTheme(th) == Truthy(th) /\ toLowerCase(th.s) \in Range(stoicThemes)

\* the length directive of the prompt
LengthDirective(length) ==
  LET len == IF length.t = "undefined" THEN Str("medium") ELSE length
  IN  IF len = Str("short") THEN "one sentence, maximum 15 words"
      ELSE IF len = Str("long") THEN "2-3 sentences"
      ELSE "1-2 sentences, around 20-30 words"

\* philosopher && stoicPhilosophers.includes(philosopher)
KnownPhilosopher(ph) == Truthy(ph) /\ ph.s \in Range(stoicPhilosophers)

\* theme || 'general stoic wisdom'
EchoTheme(th) == IF Truthy(th) THEN th.s ELSE "general stoic wisdom"

Generate(r) ==
  /\ pc[r] = "route" /\ req[r].endpoint = "generate"
  /\ IF KnownTheme(req[r].theme)
     THEN /\ Await(r, Prompt("generate", req[r].theme.s, LengthDirective(req[r].length), << >>),
                   DefaultMaxTokens)
          /\ UNCHANGED draws
     ELSE \E k \in RandomSamples :
            LET idx == RandomIndex(k, Len(stoicThemes))
            IN  /\ Await(r, Prompt("generate", stoicThemes[idx + 1],
                                   LengthDirective(req[r].length), << >>), DefaultMaxTokens)
                /\ draws' = [ draws EXCEPT ![r] = Append(@, idx) ]
  /\ UNCHANGED << DEEPSEEK_API_KEY, req, userTier, maxCount, i, theme, quotes, pauses, sent >>

GenerateResume(r) ==
  /\ pc[r] = "await" /\ req[r].endpoint = "generate"
  /\ \E outcome \in UpstreamOutcomes(DEEPSEEK_API_KEY) :
       LET result == generateWithDeepSeek(outcome)
       IN  /\ calls' = [ calls EXCEPT ![r] = Settle(r, outcome) ]
           /\ IF result.threw
              THEN /\ Respond(r, Failure("Failed to generate quote"))
                   /\ UNCHANGED draws
              ELSE IF KnownPhilosopher(req[r].philosopher)
              THEN /\ Respond(r, Success([ quote |-> result.text,
                                           attributedTo |-> req[r].philosopher.s,
                                           theme |-> EchoTheme(req[r].theme) ]))
                   /\ UNCHANGED draws
              ELSE \E k \in RandomSamples :
                     LET idx == RandomIndex(k, Len(stoicPhilosophers))
                     IN  /\ Respond(r, Success([ quote |-> result.text,
                                                 attributedTo |-> stoicPhilosophers[idx + 1],
                                                 theme |-> EchoTheme(req[r].theme) ]))
                         /\ draws' = [ draws EXCEPT ![r] = Append(@, idx) ]
  /\ UNCHANGED << DEEPSEEK_API_KEY, req, userTier, maxCount, i, theme, quotes, pauses >>

\* --------------------------------------------------- POST /api/quote/custom

\* validation that asks for all three fields
NoCustomInput_AnyMissing(q) == ~Truthy(q.situation) \/ ~Truthy(q.mood) \/ ~Truthy(q.challenge)

\* !situation && !mood && !challenge
NoCustomInput(q) == ~Truthy(q.situation) /\ ~Truthy(q.mood) /\ ~Truthy(q.challenge)

\* the labelled clauses appended to the prompt, in order
CustomClauses(q) ==
  (IF Truthy(q.situation) THEN << << "Situation", q.situation.s >> >> ELSE << >>)
    \o (IF Truthy(q.mood) THEN << << "Current mood", q.mood.s >> >> ELSE << >>)
    \o (IF Truthy(q.challenge) THEN << << "Challenge", q.challenge.s >> >> ELSE << >>)

Custom(r) ==
  /\ pc[r] = "route" /\ req[r].endpoint = "custom"
  /\ IF NoCustomInput(req[r])
     THEN /\ Respond(r, Json(400, "false",
                             "Please provide at least one of: situation, mood, or challenge",
                             { "success", "error" }, << >>, 0))
          /\ UNCHANGED calls
     ELSE /\ Await(r, Prompt("custom", "", "", CustomClauses(req[r])), CustomMaxTokens)
          /\ UNCHANGED sent
  /\ UNCHANGED << DEEPSEEK_API_KEY, req, userTier, maxCount, i, theme, quotes, pauses, draws >>

CustomResume(r) ==
  /\ pc[r] = "await" /\ req[r].endpoint = "custom"
  /\ \E outcome \in UpstreamOutcomes(DEEPSEEK_API_KEY) :
       LET result == generateWithDeepSeek(outcome)
       IN  /\ calls' = [ calls EXCEPT ![r] = Settle(r, outcome) ]
           /\ IF result.threw
              THEN /\ Respond(r, Failure("Failed to generate custom quote"))
                   /\ UNCHANGED draws
              ELSE \E k \in RandomSamples :
                     LET idx == RandomIndex(k, Len(stoicPhilosophers))
                     IN  /\ Respond(r, Success([ quote |-> result.text,
                                                 attributedTo |-> stoicPhilosophers[idx + 1],
                                                 context |-> << req[r].situation, req[r].mood,
                                                                req[r].challenge >> ]))
                         /\ draws' = [ draws EXCEPT ![r] = Append(@, idx) ]
  /\ UNCHANGED << DEEPSEEK_API_KEY, req, userTier, maxCount, i, theme, quotes, pauses >>

\* ----------------------------------------------------- GET /api/quote/daily

Daily(r) ==
  /\ pc[r] = "route" /\ req[r].endpoint = "daily"
  /\ Await(r, Prompt("daily", "", "today", << >>), DailyMaxTokens)
  /\ UNCHANGED << DEEPSEEK_API_KEY, req, userTier, maxCount, i, theme, quotes, pauses, draws, sent >>

DailyResume(r) ==
  /\ pc[r] = "await" /\ req[r].endpoint = "daily"
  /\ \E outcome \in UpstreamOutcomes(DEEPSEEK_API_KEY) :
       LET result == generateWithDeepSeek(outcome)
       IN  /\ calls' = [ calls EXCEPT ![r] = Settle(r, outcome) ]
           /\ IF result.threw
              THEN Respond(r, Failure("Failed to generate daily meditation"))
              ELSE Respond(r, Success([ meditation |-> result.text, date |-> "today" ]))
  /\ UNCHANGED << DEEPSEEK_API_KEY, req, userTier, maxCount, i, theme, quotes, pauses, draws >>

\* ------------------------------------------------- GET /api/quote/adversity

\* const { type = 'general' } = req.query
AdversityType(q) == IF q.type.t = "undefined" THEN "general" ELSE q.type.s

Adversity(r) ==
  /\ pc[r] = "route" /\ req[r].endpoint = "adversity"
  /\ Await(r, Prompt("adversity", AdversityType(req[r]), "", << >>), DefaultMaxTokens)
  /\ UNCHANGED << DEEPSEEK_API_KEY, req, userTier, maxCount, i, theme, quotes, pauses, draws, sent >>

AdversityResume(r) ==
  /\ pc[r] = "await" /\ req[r].endpoint = "adversity"
  /\ \E outcome \in UpstreamOutcomes(DEEPSEEK_API_KEY) :
       LET result == generateWithDeepSeek(outcome)
       IN  /\ calls' = [ calls EXCEPT ![r] = Settle(r, outcome) ]
           /\ IF result.threw
              THEN Respond(r, Failure("Failed to generate adversity quote"))
              ELSE Respond(r, Success([ quote |-> result.text,
                                        attributedTo |-> "Marcus Aurelius",
                                        theme |-> "adversity",
                                        type |-> AdversityType(req[r]) ]))
  /\ UNCHANGED << DEEPSEEK_API_KEY, req, userTier, maxCount, i, theme, quotes, pauses, draws >>


\* ---------------------------------------------------- POST /api/quote/batch

\* a gate that only turns away the BASIC tier
RequiresUpgrade_BasicOnly(tier) == tier = Str("BASIC")

\* req.userTier !== 'PRO' && req.userTier !== 'ULTRA'
RequiresUpgrade(tier) == tier # Str("PRO") /\ tier # Str("ULTRA")

Denied ==
  Json(403, "false", "This endpoint requires PRO subscription or higher",
       { "success", "error", "upgradeUrl" }, << >>, 0)

\* the tier check without its return: the 403 is sent and the handler goes on
BatchGate_NoReturn(r) ==
  /\ pc[r] = "route" /\ req[r].endpoint = "batch"
  /\ IF RequiresUpgrade(userTier[r])
     THEN sent' = [ sent EXCEPT ![r] = Append(@, Denied) ]
     ELSE UNCHANGED sent
  /\ pc' = [ pc EXCEPT ![r] = "batch" ]
  /\ UNCHANGED << DEEPSEEK_API_KEY, req, userTier, maxCount, i, theme, quotes, calls, pauses, draws >>

\* the tier check at the top of the handler, outside its try block
BatchGate(r) ==
  /\ pc[r] = "route" /\ req[r].endpoint = "batch"
  /\ IF RequiresUpgrade(userTier[r])
     THEN Respond(r, Denied)
     ELSE /\ pc' = [ pc EXCEPT ![r] = "batch" ]
          /\ UNCHANGED sent
  /\ UNCHANGED << DEEPSEEK_API_KEY, req, userTier, maxCount, i, theme, quotes, calls, pauses, draws >>

\* const { count = 3 } = req.body; Math.min(parseInt(count), 10)
BatchMaxCount(count) ==
  MathMin(parseInt(IF count.t = "undefined" THEN Num(DefaultCount) ELSE count),
          Number(BatchLimit))

\* const { themes = [] } = req.body
BatchThemes(themes) == IF themes.t = "undefined" THEN Arr(<< >>) ELSE themes

\* round-robin that starts one place too far
RoundRobin_OffByOne(list, idx) == list[((idx + 1) % Len(list)) + 1]

\* themes[i % themes.length] of a non-empty list
RoundRobin(list, idx) == list[(idx % Len(list)) + 1]

\* a timer started after every item, the last included
NeedsDelay_AfterEvery(idx, mc) == LessThan(idx, mc)

\* if (i < maxCount - 1), evaluated after a quote has been pushed
NeedsDelay(idx, mc) == LessThan(idx, Number(mc.n - 1))

BatchSuccess(qs) ==
  Json(200, "true", "", { "success", "data", "count", "timestamp" }, qs, Len(qs))

\* the catch block answering without res.status(500)
BatchFailure_NoStatus ==
  Json(200, "false", "Failed to generate batch quotes",
       { "success", "error", "message" }, << >>, 0)

BatchFailure ==
  Json(500, "false", "Failed to generate batch quotes",
       { "success", "error", "message" }, << >>, 0)

\* the head of the for loop at counter idx, with qs pushed, cs called and ds
\* drawn so far: the next item is started, or the loop ends and the batch is sent
LoopHead(r, idx, mc, qs, cs, ds) ==
  LET list == BatchThemes(req[r].themes)
      start(th, ds2) ==
        /\ theme' = [ theme EXCEPT ![r] = th ]
        /\ calls' = [ calls EXCEPT ![r] =
                        Append(cs, Call(Prompt("batch", th, "concise and powerful", << >>),
                                        DefaultMaxTokens)) ]
        /\ draws' = [ draws EXCEPT ![r] = ds2 ]
        /\ pc' = [ pc EXCEPT ![r] = "await" ]
        /\ UNCHANGED sent
      finish(resp) ==
        /\ Respond(r, resp)
        /\ calls' = [ calls EXCEPT ![r] = cs ]
        /\ draws' = [ draws EXCEPT ![r] = ds ]
        /\ UNCHANGED theme
  IN  /\ i' = [ i EXCEPT ![r] = idx ]
      /\ quotes' = [ quotes EXCEPT ![r] = qs ]
      /\ IF ~LessThan(idx, mc) THEN finish(BatchSuccess(qs))
         ELSE IF list.t = "null" THEN finish(BatchFailure)
         ELSE IF Len(list.a) > 0 THEN start(RoundRobin(list.a, idx), ds)
         ELSE \E k \in RandomSamples :
                LET n == RandomIndex(k, Len(stoicThemes))
                IN  start(stoicThemes[n + 1], Append(ds, n))

BatchStart(r) ==
  /\ pc[r] = "batch"
  /\ LET mc == BatchMaxCount(req[r].count)
     IN  /\ maxCount' = [ maxCount EXCEPT ![r] = mc ]
         /\ LoopHead(r, 0, mc, << >>, calls[r], draws[r])
  /\ UNCHANGED << DEEPSEEK_API_KEY, req, userTier, pauses >>

\* the upstream call of the current item settles: the quote is pushed and the
\* timer started, or the loop is left; a failure is caught by the handler
BatchResume(r) ==
  /\ pc[r] = "await" /\ req[r].endpoint = "batch"
  /\ \E outcome \in UpstreamOutcomes(DEEPSEEK_API_KEY) :
       LET result == generateWithDeepSeek(outcome)
       IN  IF result.threw
           THEN /\ Respond(r, BatchFailure)
                /\ calls' = [ calls EXCEPT ![r] = Settle(r, outcome) ]
                /\ UNCHANGED << i, theme, quotes, draws >>
           ELSE \E k \in RandomSamples :
                  LET n  == RandomIndex(k, Len(stoicPhilosophers))
                      qs == Append(quotes[r], [ quote |-> result.text,
                                                attributedTo |-> stoicPhilosophers[n + 1],
                                                theme |-> theme[r] ])
                  IN  IF NeedsDelay(i[r], maxCount[r])
                      THEN /\ quotes' = [ quotes EXCEPT ![r] = qs ]
                           /\ calls' = [ calls EXCEPT ![r] = Settle(r, outcome) ]
                           /\ draws' = [ draws EXCEPT ![r] = Append(@, n) ]
                           /\ pc' = [ pc EXCEPT ![r] = "delay" ]
                           /\ UNCHANGED << i, theme, sent >>
                      ELSE LoopHead(r, i[r] + 1, maxCount[r], qs, Settle(r, outcome),
                                    Append(draws[r], n))
  /\ UNCHANGED << DEEPSEEK_API_KEY, req, userTier, maxCount, pauses >>

\* the 500ms timer between two items fires
DelayElapsed(r) ==
  /\ pc[r] = "delay"
  /\ pauses' = [ pauses EXCEPT ![r] = @ + 1 ]
  /\ LoopHead(r, i[r] + 1, maxCount[r], quotes[r], calls[r], draws[r])
  /\ UNCHANGED << DEEPSEEK_API_KEY, req, userTier, maxCount >>

\* ------------------------------------------------------------ specifications

\* one step of the handling of request r once it has been received
Handle(r) ==
  \/ verifyRapidAPI(r)
  \/ ErrorHandler(r)
  \/ Themes(r)
  \/ Philosophers(r)
  \/ Health(r)
  \/ Root(r)
  \/ Generate(r)
  \/ GenerateResume(r)
  \/ Custom(r)
  \/ CustomResume(r)
  \/ Daily(r)
  \/ DailyResume(r)
  \/ Adversity(r)
  \/ AdversityResume(r)
  \/ BatchGate(r)
  \/ BatchStart(r)
  \/ BatchResume(r)
  \/ DelayElapsed(r)

\* a single client, sending any of Requests
Init == InitFor({ 1 })

Next == \E r \in Reqs : Receive(r, Requests) \/ Handle(r)

Spec == Init /\ [][Next]_vars

\* NumReqs clients served at once
ConcInit == InitFor(1..NumReqs)

ConcNext == \E r \in Reqs : Receive(r, ConcurrentRequests) \/ Handle(r)

ConcSpec == ConcInit /\ [][ConcNext]_vars

\* the event loop keeps running ready continuations; upstream calls settle and
\* timers fire
LiveSpec == ConcSpec /\ WF_vars(\E r \in Reqs : Handle(r))


\* ------------------------------------------------------------------- claims

IsBatch(r) == pc[r] # "idle" /\ req[r].endpoint = "batch" /\ req[r].bodyOk

ProHeader(r) == req[r].subscription \in { Str("PRO"), Str("ULTRA") }

Answered(r) == pc[r] = "done" /\ Len(sent[r]) = 1

Succeeded(r) == Answered(r) /\ sent[r][1].success = "true"

Failed(outcome) == outcome = "failed"

\* C1: a batch request whose subscription header is not PRO and not ULTRA
\* (absent included) is answered 403 with success:false and makes no upstream
\* call and no pause, whatever count and themes its body carries.
C1_DeniedWithoutCalls ==
  \A r \in Reqs :
    (IsBatch(r) /\ ~ProHeader(r)) =>
      /\ calls[r] = << >>
      /\ pauses[r] = 0
      /\ pc[r] \in { "verify", "route", "done" }
      /\ pc[r] = "done" =>
           /\ Len(sent[r]) = 1
           /\ sent[r][1].status = 403
           /\ sent[r][1].success = "false"

C1_Witness ==
  \E r \in Reqs :
    /\ IsBatch(r) /\ Answered(r)
    /\ req[r].subscription = Str("MEGA")
    /\ req[r].count = Num(15)
    /\ req[r].themes = Arr(<< "A", "B" >>)
    /\ sent[r][1].status = 403
    /\ calls[r] = << >>

\* C2: in a successful PRO/ULTRA batch a count above 10 gives exactly 10 calls
\* and 10 items, and a count of 0 or an absent count gives exactly 3 calls,
\* 3 items and count=3.
C2_CapAndDefault ==
  \A r \in Reqs :
    (IsBatch(r) /\ ProHeader(r) /\ Succeeded(r)) =>
      /\ (req[r].count.t = "num" /\ req[r].count.n > 10) =>
           /\ Len(calls[r]) = 10
           /\ Len(sent[r][1].data) = 10
      /\ (req[r].count = Undefined \/ req[r].count = Num(0)) =>
           /\ Len(calls[r]) = 3
           /\ Len(sent[r][1].data) = 3
           /\ sent[r][1].count = 3

\* C3: once a PRO/ULTRA batch has computed its loop bound, maxCount lies in
\* 1..10 for every supplied count, and a successful batch returns between 1
\* and 10 items.
C3_MaxCountInRange ==
  \A r \in Reqs :
    (IsBatch(r) /\ ProHeader(r) /\ pc[r] \in { "await", "delay", "done" }) =>
      /\ ~maxCount[r].nan
      /\ maxCount[r].n \in 1..10
      /\ Succeeded(r) => Len(sent[r][1].data) \in 1..10

\* the tier gate has run for r
GateRan(r) ==
  /\ pc[r] \in { "route", "batch", "await", "delay", "done" }
  /\ req[r].endpoint \in ApiEndpoints
  /\ req[r].bodyOk

Expected5(list, k) == list[(k % Len(list)) + 1]

\* C5: with a non-empty themes list of length L, item i (0-based) of a batch and
\* the prompt of the i-th upstream call carry themes[i mod L]; with an empty or
\* absent list every item's theme is one of the fixed themes.  The response of a
\* successful batch holds these items in order.
C5_RoundRobinThemes ==
  \A r \in Reqs :
    (IsBatch(r) /\ ProHeader(r)) =>
      LET list == req[r].themes
          given == list.t = "arr" /\ Len(list.a) > 0
          fixed == list = Undefined \/ list = Arr(<< >>)
      IN  /\ given =>
                /\ \A k \in 1..Len(calls[r]) :
                     calls[r][k].prompt.theme = Expected5(list.a, k - 1)
                /\ \A k \in 1..Len(quotes[r]) :
                     quotes[r][k].theme = Expected5(list.a, k - 1)
          /\ fixed =>
                /\ \A k \in 1..Len(calls[r]) : calls[r][k].prompt.theme \in Range(stoicThemes)
                /\ \A k \in 1..Len(quotes[r]) :
                     /\ quotes[r][k].theme \in Range(stoicThemes)
                     /\ quotes[r][k].theme = calls[r][k].prompt.theme
          /\ Succeeded(r) => sent[r][1].data = quotes[r]

C5_Witness ==
  \E r \in Reqs :
    /\ IsBatch(r) /\ ProHeader(r) /\ Succeeded(r)
    /\ req[r].themes = Arr(<< "A", "B" >>)
    /\ req[r].count = Num(5)
    /\ [ k \in 1..5 |-> sent[r][1].data[k].theme ] = << "A", "B", "A", "B", "A" >>

\* a body field that is absent or the empty string
Falsy(v) == v = Undefined \/ v = Str("")

\* C6: a custom request whose situation, mood and challenge are all absent or
\* falsy is answered 400 with success:false and makes no upstream call; with at
\* least one of them given, exactly one upstream call is made, with max_tokens 200.
C6_CustomValidation ==
  \A r \in Reqs :
    (req[r].endpoint = "custom" /\ req[r].bodyOk /\ pc[r] \in { "await", "done" }) =>
      IF Falsy(req[r].situation) /\ Falsy(req[r].mood) /\ Falsy(req[r].challenge)
      THEN /\ Answered(r)
           /\ sent[r][1].status = 400
           /\ sent[r][1].success = "false"
           /\ calls[r] = << >>
      ELSE /\ Len(calls[r]) = 1
           /\ calls[r][1].maxTokens = 200
           /\ pc[r] = "done" => (Answered(r) /\ sent[r][1].status \in { 200, 500 })

C6_Witness ==
  \E r \in Reqs :
    /\ req[r].endpoint = "custom" /\ Answered(r)
    /\ req[r].situation = Undefined /\ req[r].mood = Str("") /\ req[r].challenge = Undefined
    /\ sent[r][1].status = 400
    /\ calls[r] = << >>

\* C7: when the upstream call of item k of a batch fails, the request ends with
\* HTTP 500 and success:false, the response carries no data, that call is the
\* last one made and only the k-1 pauses before it have happened.
C7_BatchFailsWhole ==
  \A r \in Reqs :
    IsBatch(r) =>
      \A k \in 1..Len(calls[r]) :
        Failed(calls[r][k].outcome) =>
          /\ k = Len(calls[r])
          /\ Answered(r)
          /\ sent[r][1].status = 500
          /\ sent[r][1].success = "false"
          /\ "data" \notin sent[r][1].keys
          /\ sent[r][1].data = << >>
          /\ pauses[r] = k - 1

C7_Witness ==
  \E r \in Reqs :
    /\ IsBatch(r) /\ Answered(r)
    /\ Len(calls[r]) = 3
    /\ Failed(calls[r][3].outcome)
    /\ Len(quotes[r]) = 2
    /\ req[r].count = Num(15)
    /\ sent[r][1].status = 500


\* the outcomes of the upstream calls made for r, in order
Outcomes(r) == [ k \in 1..Len(calls[r]) |-> calls[r][k].outcome ]

\* The response that request q gets when it is served alone, as a function of
\* q, the process configuration, the outcomes outs of its own upstream calls
\* and its own random draws ds.
IsolatedResponse(q, key, outs, ds) ==
  LET failed == \E k \in 1..Len(outs) : outs[k] # "ok"
      style  == IF Len(ds) > 0 THEN stoicPhilosophers[ds[Len(ds)] + 1] ELSE ""
      list   == IF q.themes = Undefined THEN << >>
                ELSE IF q.themes.t = "arr" THEN q.themes.a ELSE << >>
      bound  == BatchMaxCount(q.count)
      n      == IF bound.nan \/ bound.n < 0 THEN 0 ELSE bound.n
      item(k) ==
        IF Len(list) > 0
        THEN [ quote |-> "quote", attributedTo |-> stoicPhilosophers[ds[k] + 1],
               theme |-> list[((k - 1) % Len(list)) + 1] ]
        ELSE [ quote |-> "quote", attributedTo |-> stoicPhilosophers[ds[2 * k] + 1],
               theme |-> stoicThemes[ds[2 * k - 1] + 1] ]
  IN  CASE ~q.bodyOk -> InternalError
        [] q.endpoint = "themes" ->
             Json(200, "true", "", { "success", "data" }, stoicThemes, 0)
        [] q.endpoint = "philosophers" ->
             Json(200, "true", "", { "success", "data" }, stoicPhilosophers, 0)
        [] q.endpoint = "health" ->
             Json(200, "absent", "", { "status", "deepseekConfigured", "timestamp" },
                  << [ status |-> "ok", deepseekConfigured |-> key ] >>, 0)
        [] q.endpoint = "root" ->
             Json(200, "absent", "", { "name", "version", "description", "poweredBy",
                                       "endpoints", "documentation" }, << >>, 0)
        [] q.endpoint = "generate" ->
             IF failed THEN Failure("Failed to generate quote")
             ELSE Success([ quote |-> "quote",
                            attributedTo |->
                              IF q.philosopher # Undefined
                                   /\ q.philosopher.s \in Range(stoicPhilosophers)
                              THEN q.philosopher.s ELSE style,
                            theme |-> IF Falsy(q.theme) THEN "general stoic wisdom"
                                      ELSE q.theme.s ])
        [] q.endpoint = "custom" ->
             IF Falsy(q.situation) /\ Falsy(q.mood) /\ Falsy(q.challenge)
             THEN Json(400, "false",
                       "Please provide at least one of: situation, mood, or challenge",
                       { "success", "error" }, << >>, 0)
             ELSE IF failed THEN Failure("Failed to generate custom quote")
             ELSE Success([ quote |-> "quote", attributedTo |-> style,
                            context |-> << q.situation, q.mood, q.challenge >> ])
        [] q.endpoint = "daily" ->
             IF failed THEN Failure("Failed to generate daily meditation")
             ELSE Success([ meditation |-> "quote", date |-> "today" ])
        [] q.endpoint = "adversity" ->
             IF failed THEN Failure("Failed to generate adversity quote")
             ELSE Success([ quote |-> "quote", attributedTo |-> "Marcus Aurelius",
                            theme |-> "adversity",
                            type |-> IF q.type = Undefined THEN "general" ELSE q.type.s ])
        [] OTHER ->
             IF q.subscription \notin { Str("PRO"), Str("ULTRA") } THEN Denied
             ELSE IF n = 0 THEN BatchSuccess(<< >>)
             ELSE IF q.themes = Null \/ failed THEN BatchFailure
             ELSE BatchSuccess([ k \in 1..n |-> item(k) ])

GenerateFamily == { "generate", "custom", "daily", "adversity", "batch" }

\* C8: on generate, custom, daily, adversity and batch a failed upstream call
\* gives HTTP 500 with success:false; the failed call is the last call of the
\* request (no retry: one call per quote attempted); and whatever other
\* requests did before or meanwhile, failures included, a finished request has
\* the response it gets when served alone with the same inputs, upstream
\* outcomes and random draws, and the process configuration is untouched.
C8_FailureIsolated ==
  /\ [](\A r \in Reqs :
          /\ (pc[r] # "idle" /\ req[r].endpoint \in GenerateFamily) =>
               /\ \A k \in 1..Len(calls[r]) :
                    Failed(calls[r][k].outcome) =>
                      /\ k = Len(calls[r])
                      /\ Answered(r)
                      /\ sent[r][1].status = 500
                      /\ sent[r][1].success = "false"
               /\ req[r].endpoint # "batch" => Len(calls[r]) <= 1
               /\ req[r].endpoint = "batch" =>
                    Len(calls[r]) \in { Len(quotes[r]), Len(quotes[r]) + 1 }
          /\ pc[r] = "done" =>
               sent[r] = << IsolatedResponse(req[r], DEEPSEEK_API_KEY, Outcomes(r), draws[r]) >>)
  /\ [][DEEPSEEK_API_KEY' = DEEPSEEK_API_KEY]_vars

C8_Witness ==
  \E r1 \in Reqs, r2 \in Reqs :
    /\ r1 # r2
    /\ req[r1] = req[r2]
    /\ req[r1].endpoint = "batch"
    /\ Answered(r1) /\ sent[r1][1].status = 500 /\ Len(calls[r1]) = 2
    /\ pc[r2] = "done" /\ Succeeded(r2) /\ Len(sent[r2][1].data) = 2

\* C9: the upstream calls of one batch are strictly sequential.  A call after the
\* first is issued only when the 500ms timer that followed the previous call's
\* return fires, so at most one call of the request is in flight; a batch that
\* succeeds with n >= 1 items has made n calls and n-1 pauses (none after the
\* last call), and its items are in call order.
C9_SequentialCalls ==
  /\ [](\A r \in Reqs :
          IsBatch(r) =>
            /\ InFlight(r) <= 1
            /\ pc[r] = "await" =>
                 /\ InFlight(r) = 1
                 /\ calls[r][Len(calls[r])].outcome = "pending"
                 /\ pauses[r] = Len(calls[r]) - 1
                 /\ Len(quotes[r]) = Len(calls[r]) - 1
            /\ pc[r] = "delay" =>
                 /\ InFlight(r) = 0
                 /\ pauses[r] = Len(calls[r]) - 1
                 /\ Len(quotes[r]) = Len(calls[r])
            /\ Succeeded(r) =>
                 LET n == Len(sent[r][1].data)
                 IN  /\ Len(calls[r]) = n
                     /\ InFlight(r) = 0
                     /\ pauses[r] = IF n = 0 THEN 0 ELSE n - 1
                     /\ \A k \in 1..n :
                          /\ calls[r][k].outcome = "ok"
                          /\ sent[r][1].data[k].theme = calls[r][k].prompt.theme)
  /\ [][\A r \in Reqs :
          Len(calls'[r]) > Len(calls[r]) =>
            /\ Len(calls'[r]) = Len(calls[r]) + 1
            /\ Len(calls[r]) > 0 =>
                 /\ pc[r] = "delay"
                 /\ InFlight(r) = 0
                 /\ pauses'[r] = Len(calls[r])]_vars

C9_Witness ==
  \E r \in Reqs :
    /\ IsBatch(r) /\ Succeeded(r)
    /\ Len(sent[r][1].data) = 10
    /\ Len(calls[r]) = 10
    /\ pauses[r] = 9

\* everything the server holds for request r
Own(r) ==
  << pc[r], req[r], userTier[r], maxCount[r], i[r], theme[r], quotes[r], calls[r],
     pauses[r], draws[r], sent[r] >>

\* C10: under any interleaving of concurrent requests, with upstream calls that
\* settle and timers that fire, whenever a request is in progress a state follows
\* in which every received request has ended with exactly one response; that
\* response is the one the request gets when served alone, a finished request
\* is never touched again, and no step touches the state of two requests or
\* the process configuration.
C10_OneTerminalResponse ==
  /\ [](\A r \in Reqs :
          /\ Len(sent[r]) <= 1
          /\ Len(sent[r]) = 1 <=> pc[r] = "done"
          /\ pc[r] = "done" =>
               /\ sent[r][1].success \in { "true", "false", "absent" }
               /\ sent[r][1] =
                    IsolatedResponse(req[r], DEEPSEEK_API_KEY, Outcomes(r), draws[r]))
  /\ [][/\ DEEPSEEK_API_KEY' = DEEPSEEK_API_KEY
        /\ \A r1 \in Reqs, r2 \in Reqs :
             (r1 # r2 /\ Own(r1)' # Own(r1)) => Own(r2)' = Own(r2)
        /\ \A r \in Reqs : pc[r] = "done" => Own(r)' = Own(r)]_vars
  /\ (\E r \in Reqs : pc[r] \notin { "idle", "done" })
       ~> (\A r \in Reqs : pc[r] # "idle" => (pc[r] = "done" /\ Len(sent[r]) = 1))

C10_Witness ==
  \E r1 \in Reqs, r2 \in Reqs :
    /\ r1 # r2
    /\ pc[r1] = "await" /\ req[r1].endpoint = "batch" /\ Len(calls[r1]) = 2
    /\ pc[r2] = "done" /\ req[r2].endpoint = "generate" /\ Len(sent[r2]) = 1

====
